---- MODULE Spec2Model ----
(***************************************************************************)
(* A model of rac (src/src/main.rs): the MacAddr value type (parsing,      *)
(* formatting, random generation), the interface lookups over the OS       *)
(* interface table, the three-step set_addr mutation, and the branch       *)
(* structure of main.                                                      *)
(*                                                                         *)
(* Text is a sequence of one-character strings.  Option<T> is a sequence   *)
(* of length at most one: <<>> is None and <<x>> is Some(x).               *)
(***************************************************************************)
EXTENDS Integers, Sequences, FiniteSets, TLC

VARIABLES
    args,       \* the parsed command line (struct Args)
    ifaddrs,    \* the OS interface table, in enumeration order
    pc,         \* position of the run
    branch,     \* the branch of main that was taken ("" before main ran)
    out,        \* the lines printed, in order
    result,     \* "" while running, then "Ok", "IoError" or "Panic"
    calls,      \* the invocations of set_addr, in order
    cmds,       \* the external commands spawned by set_addr, in order
    cmdRes,     \* what each spawned command did
    link,       \* administrative state of the interface set_addr acts on
    text,       \* input of MacAddr::from_str
    parsed,     \* Option of the result of MacAddr::from_str
    info,       \* Option of the last get_info call: its argument and result
    exists,     \* Option of the result of the inter_exists call
    raw,        \* the six octets drawn from the random source
    addr        \* Option of the address returned by new_addr

vars == <<args, ifaddrs, pc, branch, out, result, calls, cmds, cmdRes, link,
          text, parsed, info, exists, raw, addr>>

None == <<>>
Some(x) == <<x>>
IsSome(o) == Len(o) = 1
Unwrap(o) == o[1]

(***************************************************************************)
(* Bounds and program constants                                            *)
(***************************************************************************)
U8Max == 255
MacLen == 6
Radix == 16
MaxFields == 7      \* fields of a generated address text
MaxOdd == 1         \* fields of a generated text that are not plain octets
MaxEntries == 3     \* entries of the interface table (lookup specification)
MaxIfs == 2         \* entries of the interface table (main specification)

U8 == 0..U8Max

(***************************************************************************)
(* MacAddr: Display                                                        *)
(***************************************************************************)
HexUpper == <<"0","1","2","3","4","5","6","7","8","9","A","B","C","D","E","F">>

\* "{:<02X}": the 0 flag overrides fill and alignment, so two upper-case digits
FormatOctet(b) ==
    IF b < Radix THEN <<"0", HexUpper[b + 1]>>
    ELSE <<HexUpper[(b \div Radix) + 1], HexUpper[(b % Radix) + 1]>>

to_string(bytes) ==
    FormatOctet(bytes[1]) \o <<":">> \o FormatOctet(bytes[2]) \o <<":">> \o
    FormatOctet(bytes[3]) \o <<":">> \o FormatOctet(bytes[4]) \o <<":">> \o
    FormatOctet(bytes[5]) \o <<":">> \o FormatOctet(bytes[6])

(***************************************************************************)
(* MacAddr: FromStr                                                        *)
(***************************************************************************)
DecDigits == <<"0","1","2","3","4","5","6","7","8","9">>
LowerHex == <<"a","b","c","d","e","f">>
UpperHex == <<"A","B","C","D","E","F">>

\* char::to_digit(16): -1 stands for None
to_digit(c) ==
    IF \E i \in 1..10 : DecDigits[i] = c
    THEN (CHOOSE i \in 1..10 : DecDigits[i] = c) - 1
    ELSE IF \E i \in 1..6 : LowerHex[i] = c
    THEN (CHOOSE i \in 1..6 : LowerHex[i] = c) + 9
    ELSE IF \E i \in 1..6 : UpperHex[i] = c
    THEN (CHOOSE i \in 1..6 : UpperHex[i] = c) + 9
    ELSE -1

Ok(v) == [ok |-> TRUE, val |-> v, err |-> ""]
Err(e) == [ok |-> FALSE, val |-> <<>>, err |-> e]

\* the checked multiply-and-add loop of u8::from_str_radix
RECURSIVE Accumulate(_, _, _)
Accumulate(digits, i, acc) ==
    IF i > Len(digits) THEN [ok |-> TRUE, val |-> acc, err |-> ""]
    ELSE LET d == to_digit(digits[i]) IN
         IF d < 0 THEN [ok |-> FALSE, val |-> 0, err |-> "InvalidDigit"]
         ELSE IF acc * Radix + d > U8Max
         THEN [ok |-> FALSE, val |-> 0, err |-> "PosOverflow"]
         ELSE Accumulate(digits, i + 1, acc * Radix + d)

IsSeparator(c) == c = ":" \/ c = "-"

\* u8::from_str_radix(src, 16): empty is an error, a lone sign is an error, a
\* leading '+' is skipped, a leading '-' is left in place for an unsigned type
from_str_radix(src) ==
    IF Len(src) = 0 THEN [ok |-> FALSE, val |-> 0, err |-> "Empty"]
    ELSE IF (src[1] = "+" \/ src[1] = "-") /\ Len(src) = 1
    THEN [ok |-> FALSE, val |-> 0, err |-> "InvalidDigit"]
    ELSE IF src[1] = "+" THEN Accumulate(Tail(src), 1, 0)
    ELSE Accumulate(src, 1, 0)

\* str::split(|c| c == ':' || c == '-'): one more field than separators
RECURSIVE SplitFrom(_, _, _, _)
SplitFrom(input, i, cur, acc) ==
    IF i > Len(input) THEN Append(acc, cur)
    ELSE IF IsSeparator(input[i]) THEN SplitFrom(input, i + 1, <<>>, Append(acc, cur))
    ELSE SplitFrom(input, i + 1, Append(cur, input[i]), acc)

split(input) == SplitFrom(input, 1, <<>>, <<>>)

\* the loop of from_str: nth counts the fields accepted so far
RECURSIVE ParseLoop(_, _, _)
ParseLoop(fields, nth, array) ==
    IF nth = Len(fields)
    THEN IF nth # MacLen THEN Err("InvalidLength") ELSE Ok(array)
    ELSE IF nth = MacLen THEN Err("InvalidLength")
    ELSE LET b == from_str_radix(fields[nth + 1]) IN
         IF ~b.ok THEN Err("InvalidDigit")
         ELSE ParseLoop(fields, nth + 1, [array EXCEPT ![nth + 1] = b.val])

from_str(input) == ParseLoop(split(input), 0, <<0, 0, 0, 0, 0, 0>>)

(***************************************************************************)
(* InterfaceDirectory: inter_exists and get_info over one getifaddrs call  *)
(***************************************************************************)
Link(bytes) == [family |-> "Link", bytes |-> bytes]
Inet == [family |-> "Inet", bytes |-> <<>>]
Entry(name, address) == [interface_name |-> name, address |-> address]

\* getifaddrs()?: the snapshot, or the I/O error of the enumeration call
getifaddrs(table, ok) ==
    IF ok THEN [ok |-> TRUE, val |-> table, err |-> ""]
    ELSE [ok |-> FALSE, val |-> <<>>, err |-> "IoError"]

\* variant: any name is reported as existing once the enumeration succeeded
inter_exists_any(snap, inter) ==
    IF ~snap.ok THEN [ok |-> FALSE, val |-> FALSE, err |-> snap.err]
    ELSE [ok |-> TRUE, val |-> TRUE, err |-> ""]

inter_exists(snap, inter) ==
    IF ~snap.ok THEN [ok |-> FALSE, val |-> FALSE, err |-> snap.err]
    ELSE [ok |-> TRUE,
          val |-> \E i \in 1..Len(snap.val) : snap.val[i].interface_name = inter,
          err |-> ""]

\* variant: only the first byte is looked at
FirstByteNonZero(bytes) == bytes[1] # 0

AnyNonZero(bytes) == \E i \in 1..Len(bytes) : bytes[i] # 0

\* the loop of get_info, from entry i on
RECURSIVE Scan(_, _, _)
Scan(table, i, name) ==
    IF i > Len(table) THEN None
    ELSE LET e == table[i] IN
         IF IsSome(e.address) /\ Unwrap(e.address).family = "Link"
         THEN LET bytes == Unwrap(e.address).bytes IN
              IF IsSome(name)
              THEN IF e.interface_name = Unwrap(name)
                   THEN Some([name |-> Unwrap(name), addr |-> bytes])
                   ELSE Scan(table, i + 1, name)
              ELSE IF AnyNonZero(bytes)
                   THEN Some([name |-> e.interface_name, addr |-> bytes])
                   ELSE Scan(table, i + 1, name)
         ELSE Scan(table, i + 1, name)

get_info(snap, name) ==
    IF ~snap.ok THEN Err(snap.err) ELSE Ok(Scan(snap.val, 1, name))

(***************************************************************************)
(* new_addr                                                                *)
(***************************************************************************)
UnicastMask == 254      \* 0xfe
LocalBit == 2           \* 0x02

RECURSIVE BitAnd(_, _)
BitAnd(a, b) ==
    IF a = 0 \/ b = 0 THEN 0
    ELSE 2 * BitAnd(a \div 2, b \div 2) + (IF a % 2 = 1 /\ b % 2 = 1 THEN 1 ELSE 0)

RECURSIVE BitOr(_, _)
BitOr(a, b) ==
    IF a = 0 THEN b
    ELSE IF b = 0 THEN a
    ELSE 2 * BitOr(a \div 2, b \div 2) + (IF a % 2 = 1 \/ b % 2 = 1 THEN 1 ELSE 0)

\* variant: the multicast bit is not cleared
new_addr_keep_multicast(octets) ==
    [octets EXCEPT ![1] = BitOr(octets[1], LocalBit)]

\* octets are the six values random::<u8>() returned, in order
new_addr(octets) ==
    [octets EXCEPT ![1] = BitOr(BitAnd(octets[1], UnicastMask), LocalBit)]

(***************************************************************************)
(* Printed lines                                                           *)
(***************************************************************************)
Msg(kind, inter, txt) == [kind |-> kind, inter |-> inter, text |-> txt]

(***************************************************************************)
(* Inputs                                                                  *)
(***************************************************************************)
ValidText == <<"A","A",":","B","B",":","C","C",":","D","D",":","E","E",":","F","F">>
BadDigitText == <<"z","z",":","1","1",":","2","2",":","3","3",":","4","4",":","5","5">>
ShortText == <<"1",":","2",":","3">>
AddressTexts == {ValidText, BadDigitText, ShortText}

InterfaceNames == {"eth0", "wlan0", "tun9"}

SetArgs ==
    [address : {None} \cup {Some(t) : t \in AddressTexts},
     interface : {None} \cup {Some(n) : n \in InterfaceNames},
     random : BOOLEAN]

\* clap's arg_required_else_help prints the help and exits when nothing at all
\* is given, so main never sees an Args with no flag and no subcommand
ArgsSet ==
    {a \in [set : {None} \cup {Some(s) : s \in SetArgs},
            random : BOOLEAN,
            current : BOOLEAN] :
        a.current \/ a.random \/ IsSome(a.set)}

ZeroMac == <<0, 0, 0, 0, 0, 0>>
MacA == <<0, 17, 34, 51, 68, 85>>
MacB == <<0, 0, 0, 0, 0, 1>>

MainEntries ==
    {Entry("lo", Some(Link(ZeroMac))), Entry("eth0", Some(Inet)),
     Entry("eth0", Some(Link(MacA))), Entry("wlan0", Some(Link(MacB))),
     Entry("wlan0", None)}

LookupEntries ==
    {Entry(n, a) : n \in {"lo", "eth0", "wlan0"},
                   a \in {None, Some(Inet), Some(Link(ZeroMac)),
                          Some(Link(MacA)), Some(Link(MacB))}}

Tables(entries, max) == UNION {[1..n -> entries] : n \in 0..max}

RawAddrs == {<<255, 255, 255, 255, 255, 255>>, ZeroMac, <<1, 35, 69, 103, 137, 171>>}
RawTails == {<<0, 0, 0, 0, 0>>, <<255, 254, 1, 128, 7>>, <<18, 52, 86, 120, 154>>}

CmdOutcomes == {"io_error", "exit_ok", "exit_fail"}

(***************************************************************************)
(* set_addr: three spawned commands, then the report                       *)
(***************************************************************************)
Command(verb, inter, txt) == [verb |-> verb, inter |-> inter, text |-> txt]

\* the command of step k of set_addr
SetAddrCommand(k, inter, bytes) ==
    IF k = 1 THEN Command("down", inter, <<>>)
    ELSE IF k = 2 THEN Command("address", inter, to_string(bytes))
    ELSE Command("up", inter, <<>>)

StepPc == <<"down", "address", "up", "report">>

\* variant: the I/O error of a spawn is dropped and the next step runs
AfterStepIgnoringError(k, r) == StepPc[k + 1]

\* `.output()?`: an I/O error of the spawn returns from set_addr (and main);
\* the exit status of a command that ran is not looked at
AfterStep(k, r) == IF r = "io_error" THEN "done" ELSE StepPc[k + 1]

LinkAfter(k, r, l) ==
    IF r # "exit_ok" THEN l
    ELSE IF k = 1 THEN "down"
    ELSE IF k = 3 THEN "up"
    ELSE l

Current == calls[Len(calls)]

Step(k) ==
    /\ pc = StepPc[k]
    /\ \E r \in CmdOutcomes :
        /\ cmds' = Append(cmds, SetAddrCommand(k, Current.inter, Current.addr))
        /\ cmdRes' = Append(cmdRes, r)
        /\ link' = LinkAfter(k, r, link)
        /\ pc' = AfterStep(k, r)
        /\ result' = IF AfterStep(k, r) = "done" THEN "IoError" ELSE result
    /\ UNCHANGED <<args, ifaddrs, branch, out, calls, text, parsed, info, exists, raw, addr>>

SetAddrDown == Step(1)
SetAddrAddress == Step(2)
SetAddrUp == Step(3)

SetAddrReport ==
    /\ pc = "report"
    /\ out' = Append(out, Msg("set_done", Current.inter, to_string(Current.addr)))
    /\ result' = "Ok"
    /\ pc' = "done"
    /\ UNCHANGED <<args, ifaddrs, branch, calls, cmds, cmdRes, link,
                   text, parsed, info, exists, raw, addr>>

(***************************************************************************)
(* main                                                                    *)
(***************************************************************************)
\* variant: the top-level random flag is tested before the current flag
BranchRandomFirst(a) ==
    IF a.random THEN "random"
    ELSE IF a.current THEN "current"
    ELSE IF IsSome(a.set) THEN "set"
    ELSE "none"

\* the if / else-if chain of main
Branch(a) ==
    IF a.current THEN "current"
    ELSE IF a.random THEN "random"
    ELSE IF IsSome(a.set) THEN "set"
    ELSE "none"

\* variant: the address arm is tested before the random arm
SetBranchAddressFirst(s) ==
    IF IsSome(s.interface) /\ ~IsSome(s.address) /\ ~s.random THEN "interface_only"
    ELSE IF IsSome(s.address) THEN "address"
    ELSE IF s.random THEN "random"
    ELSE "nothing"

\* variant: the interface-alone arm is missing
SetBranchNoAloneArm(s) ==
    IF s.random THEN "random"
    ELSE IF IsSome(s.address) THEN "address"
    ELSE "nothing"

\* the if / else-if chain inside the Set arm; "nothing" is the case no arm takes
SetBranch(s) ==
    IF IsSome(s.interface) /\ ~IsSome(s.address) /\ ~s.random THEN "interface_only"
    ELSE IF s.random THEN "random"
    ELSE IF IsSome(s.address) THEN "address"
    ELSE "nothing"

\* variant: the parse error does not return from main
AddressPlanIgnoringError(p) == "apply"

\* `.map_err(..)?` on the result of from_str: an Err returns from main
AddressPlan(p) == IF ~p.ok THEN "reject" ELSE "apply"

Finish(lines, res) ==
    /\ out' = lines
    /\ result' = res
    /\ pc' = "done"
    /\ calls' = calls

Call(lines, inter, bytes) ==
    /\ out' = lines
    /\ result' = result
    /\ pc' = StepPc[1]
    /\ calls' = Append(calls, [inter |-> inter, addr |-> bytes])

\* the interface resolution both Set arms end with
ApplyTo(interface, bytes, lines) ==
    \E ok \in BOOLEAN :
        LET snap == getifaddrs(ifaddrs, ok) IN
        IF IsSome(interface)
        THEN LET ex == inter_exists(snap, Unwrap(interface)) IN
             /\ info' = info
             /\ exists' = Some(ex)
             /\ IF ~ex.ok THEN Finish(lines, "IoError")
                ELSE IF ex.val THEN Call(lines, Unwrap(interface), bytes)
                ELSE Finish(Append(lines, Msg("no_such_interface", Unwrap(interface), <<>>)), "Ok")
        ELSE LET r == get_info(snap, None)
                 told == Append(lines, Msg("no_interface_given", "", <<>>)) IN
             /\ info' = Some([arg |-> None, res |-> r])
             /\ exists' = exists
             /\ IF ~r.ok THEN Finish(Append(told, Msg("failed_info", "", <<>>)), "IoError")
                ELSE IF IsSome(r.val) THEN Call(told, Unwrap(r.val).name, bytes)
                ELSE Finish(told, "Panic")

MainCurrent ==
    /\ pc = "main"
    /\ Branch(args) = "current"
    /\ branch' = "current"
    /\ \E ok \in BOOLEAN :
        LET r == get_info(getifaddrs(ifaddrs, ok), None) IN
        /\ info' = Some([arg |-> None, res |-> r])
        /\ IF ~r.ok THEN Finish(<<Msg("failed_info", "", <<>>)>>, "IoError")
           ELSE IF IsSome(r.val)
           THEN Finish(<<Msg("current", Unwrap(r.val).name, to_string(Unwrap(r.val).addr))>>, "Ok")
           ELSE Finish(<<Msg("not_found", "", <<>>)>>, "Ok")
    /\ UNCHANGED <<args, ifaddrs, cmds, cmdRes, link, text, parsed, exists, raw, addr>>

MainRandom ==
    /\ pc = "main"
    /\ Branch(args) = "random"
    /\ branch' = "random"
    /\ \E octets \in RawAddrs :
        /\ raw' = octets
        /\ addr' = Some(new_addr(octets))
        /\ Finish(<<Msg("random", "", to_string(new_addr(octets)))>>, "Ok")
    /\ UNCHANGED <<args, ifaddrs, cmds, cmdRes, link, text, parsed, info, exists>>

MainSetInterfaceOnly ==
    /\ pc = "main"
    /\ Branch(args) = "set"
    /\ SetBranch(Unwrap(args.set)) = "interface_only"
    /\ branch' = "set_interface_only"
    /\ Finish(<<Msg("interface_alone", "", <<>>)>>, "Ok")
    /\ UNCHANGED <<args, ifaddrs, cmds, cmdRes, link, text, parsed, info, exists, raw, addr>>

MainSetRandom ==
    /\ pc = "main"
    /\ Branch(args) = "set"
    /\ SetBranch(Unwrap(args.set)) = "random"
    /\ branch' = "set_random"
    /\ LET s == Unwrap(args.set)
           lines == IF IsSome(s.address)
                    THEN <<Msg("random_precedence", "", <<>>)>> ELSE <<>> IN
       \E octets \in RawAddrs :
        /\ raw' = octets
        /\ addr' = Some(new_addr(octets))
        /\ ApplyTo(s.interface, new_addr(octets), lines)
    /\ UNCHANGED <<args, ifaddrs, cmds, cmdRes, link, text, parsed>>

MainSetAddress ==
    /\ pc = "main"
    /\ Branch(args) = "set"
    /\ SetBranch(Unwrap(args.set)) = "address"
    /\ branch' = "set_address"
    /\ LET s == Unwrap(args.set)
           p == from_str(Unwrap(s.address)) IN
        /\ text' = Unwrap(s.address)
        /\ parsed' = Some(p)
        /\ IF AddressPlan(p) = "reject"
           THEN /\ Finish(<<Msg("invalid_address", "", Unwrap(s.address))>>, "IoError")
                /\ info' = info
                /\ exists' = exists
           ELSE ApplyTo(s.interface, p.val, <<>>)
    /\ UNCHANGED <<args, ifaddrs, cmds, cmdRes, link, raw, addr>>

\* Set with no address, no interface and random = false: no arm of the chain
\* is taken and main returns Ok(()) at its last line
MainSetNothing ==
    /\ pc = "main"
    /\ Branch(args) = "set"
    /\ SetBranch(Unwrap(args.set)) = "nothing"
    /\ branch' = "set_nothing"
    /\ Finish(<<>>, "Ok")
    /\ UNCHANGED <<args, ifaddrs, cmds, cmdRes, link, text, parsed, info, exists, raw, addr>>

Init ==
    /\ args \in ArgsSet
    /\ ifaddrs \in Tables(MainEntries, MaxIfs)
    /\ link \in {"up", "down"}
    /\ pc = "main"
    /\ branch = ""
    /\ out = <<>>
    /\ result = ""
    /\ calls = <<>>
    /\ cmds = <<>>
    /\ cmdRes = <<>>
    /\ text = <<>>
    /\ parsed = None
    /\ info = None
    /\ exists = None
    /\ raw = <<>>
    /\ addr = None

Next ==
    \/ MainCurrent
    \/ MainRandom
    \/ MainSetInterfaceOnly
    \/ MainSetRandom
    \/ MainSetAddress
    \/ MainSetNothing
    \/ SetAddrDown
    \/ SetAddrAddress
    \/ SetAddrUp
    \/ SetAddrReport

Spec == Init /\ [][Next]_vars

(***************************************************************************)
(* MacAddr::from_str on generated texts                                    *)
(***************************************************************************)
NoArgs == [set |-> None, random |-> FALSE, current |-> FALSE]

\* no run of main is in progress
Idle ==
    /\ args = NoArgs
    /\ link = "up"
    /\ pc = "idle"
    /\ branch = ""
    /\ out = <<>>
    /\ result = ""
    /\ calls = <<>>
    /\ cmds = <<>>
    /\ cmdRes = <<>>
    /\ exists = None

PlainCycle == <<<<"f", "F">>, <<"9", "a">>, <<"7">>, <<"A">>, <<"1", "0">>, <<"0", "c">>>>
PlainField(style, i) ==
    IF style = 1 THEN <<"0">> ELSE PlainCycle[((i - 1) % Len(PlainCycle)) + 1]

OddFields ==
    {<<>>, <<"g">>, <<"+", "A">>, <<"+">>, <<"0", "0", "A">>, <<"1", "0", "0">>,
     <<" ", "1">>}

SepAt(style, i) ==
    IF style = 1 THEN ":"
    ELSE IF style = 2 THEN "-"
    ELSE IF i % 2 = 1 THEN ":" ELSE "-"

RECURSIVE Join(_, _, _)
Join(fields, style, i) ==
    IF i > Len(fields) THEN <<>>
    ELSE IF i = Len(fields) THEN fields[i]
    ELSE fields[i] \o <<SepAt(style, i)>> \o Join(fields, style, i + 1)

GeneratedTexts ==
    {Join([i \in 1..n |-> IF i \in DOMAIN odd THEN odd[i] ELSE PlainField(ps, i)], ss, 1) :
        n \in 1..MaxFields, ps \in 1..2, ss \in 1..3,
        odd \in UNION {[S -> OddFields] :
                        S \in {T \in SUBSET (1..MaxFields) : Cardinality(T) <= MaxOdd}}}

InitParse ==
    /\ Idle
    /\ text \in GeneratedTexts
    /\ parsed = None
    /\ ifaddrs = <<>>
    /\ info = None
    /\ raw = <<>>
    /\ addr = None

Parse ==
    /\ parsed = None
    /\ parsed' = Some(from_str(text))
    /\ UNCHANGED <<args, ifaddrs, pc, branch, out, result, calls, cmds, cmdRes, link,
                   text, info, exists, raw, addr>>

SpecParse == InitParse /\ [][Parse]_vars

(***************************************************************************)
(* get_info over generated interface tables                                *)
(***************************************************************************)
InitLookup ==
    /\ Idle
    /\ ifaddrs \in Tables(LookupEntries, MaxEntries)
    /\ info = None
    /\ text = <<>>
    /\ parsed = None
    /\ raw = <<>>
    /\ addr = None

Lookup ==
    /\ info = None
    /\ \E name \in {None, Some("eth0")}, ok \in BOOLEAN :
        info' = Some([arg |-> name, res |-> get_info(getifaddrs(ifaddrs, ok), name)])
    /\ UNCHANGED <<args, ifaddrs, pc, branch, out, result, calls, cmds, cmdRes, link,
                   text, parsed, exists, raw, addr>>

SpecLookup == InitLookup /\ [][Lookup]_vars

(***************************************************************************)
(* new_addr over the octets the random source can return                   *)
(***************************************************************************)
InitGen ==
    /\ Idle
    /\ raw = <<>>
    /\ addr = None
    /\ ifaddrs = <<>>
    /\ info = None
    /\ text = <<>>
    /\ parsed = None

Generate ==
    /\ addr = None
    /\ \E first \in U8, rest \in RawTails :
        /\ raw' = <<first>> \o rest
        /\ addr' = Some(new_addr(<<first>> \o rest))
    /\ UNCHANGED <<args, ifaddrs, pc, branch, out, result, calls, cmds, cmdRes, link,
                   text, parsed, info, exists>>

SpecGen == InitGen /\ [][Generate]_vars

(***************************************************************************)
(* Properties                                                              *)
(***************************************************************************)
Done == pc = "done"
SetGiven == ~args.current /\ ~args.random /\ IsSome(args.set)
TheSet == Unwrap(args.set)
Kinds(k) == {i \in 1..Len(out) : out[i].kind = k}

LookupFound == IsSome(info) /\ Unwrap(info).res.ok /\ IsSome(Unwrap(info).res.val)
LookupEmpty == IsSome(info) /\ Unwrap(info).res.ok /\ ~IsSome(Unwrap(info).res.val)
LookupFailed == IsSome(info) /\ ~Unwrap(info).res.ok
Found == Unwrap(Unwrap(info).res.val)

ShowCurrent ==
    /\ LookupFound
    /\ out = <<Msg("current", Found.name, to_string(Found.addr))>>
    /\ result = "Ok"
ShowCurrentNotFound == out = <<Msg("not_found", "", <<>>)>> /\ result = "Ok"
ShowRandom ==
    /\ IsSome(addr)
    /\ out = <<Msg("random", "", to_string(Unwrap(addr)))>>
    /\ result = "Ok"

\* C1 as stated: with the current flag set the outcome is ShowCurrent when
\* Lookup(None) finds an entry and ShowCurrentNotFound in every other case; with
\* current unset and the top-level random flag set it is ShowRandom; set_addr is
\* never invoked in either case.
C1_AsStated ==
    /\ (args.current \/ args.random) => calls = <<>> /\ cmds = <<>>
    /\ (Done /\ args.current) =>
            IF LookupFound THEN ShowCurrent ELSE ShowCurrentNotFound
    /\ (Done /\ ~args.current /\ args.random) => ShowRandom

\* C1 amended: with the current flag set, whatever else is given, the outcome is
\* ShowCurrent when Lookup(None) returns an entry, ShowCurrentNotFound when it
\* returns None and the I/O error when the enumeration fails; with current unset
\* and the top-level random flag set it is ShowRandom whatever the set options;
\* in both cases set_addr is never invoked, nothing is parsed and no interface
\* is checked.
C1_Priority ==
    /\ (args.current \/ args.random) =>
            calls = <<>> /\ cmds = <<>> /\ parsed = None /\ exists = None
    /\ (Done /\ args.current) =>
            /\ branch = "current"
            /\ addr = None
            /\ LookupFound \/ LookupEmpty \/ LookupFailed
            /\ LookupFound => ShowCurrent
            /\ LookupEmpty => ShowCurrentNotFound
            /\ LookupFailed => result = "IoError" /\ Kinds("current") = {}
                                /\ Kinds("not_found") = {}
    /\ (Done /\ ~args.current /\ args.random) =>
            branch = "random" /\ ShowRandom /\ info = None

C1_Witness ==
    /\ Done /\ args.current /\ args.random
    /\ IsSome(args.set) /\ TheSet.random /\ IsSome(TheSet.address)
    /\ ShowCurrent

\* C2: set with random = true and an address also given (no top-level flag):
\* the precedence advisory is printed exactly once, the literal is never parsed,
\* and whenever the target interface resolves set_addr is invoked with the
\* resolved interface and the generated address new_addr returned.
C2_RandomOverridesAddress ==
    (SetGiven /\ TheSet.random /\ IsSome(TheSet.address) /\ pc # "main") =>
        /\ Cardinality(Kinds("random_precedence")) = 1
        /\ out[1] = Msg("random_precedence", "", <<>>)
        /\ parsed = None
        /\ IsSome(addr) /\ Unwrap(addr) = new_addr(raw)
        /\ \A i \in 1..Len(calls) : calls[i].addr = Unwrap(addr)
        /\ (IsSome(TheSet.interface) /\ IsSome(exists) /\ Unwrap(exists).ok
                /\ Unwrap(exists).val) =>
              calls = <<[inter |-> Unwrap(TheSet.interface), addr |-> Unwrap(addr)]>>
        /\ (~IsSome(TheSet.interface) /\ LookupFound) =>
              calls = <<[inter |-> Found.name, addr |-> Unwrap(addr)]>>

C2_Witness ==
    /\ SetGiven /\ TheSet.random /\ TheSet.address = Some(ValidText)
    /\ Done /\ result = "Ok"
    /\ Len(calls) = 1
    /\ calls[1].addr # from_str(ValidText).val
    /\ cmds[2].text # ValidText
    /\ Cardinality(Kinds("random_precedence")) = 1

\* C3: set with random = false and an address text from_str rejects: the run
\* ends with the invalid-address error, and set_addr is never invoked, no
\* command is spawned and no interface is looked up, whatever the interface
\* option and the interface table.
C3_InvalidAddressTerminal ==
    (SetGiven /\ ~TheSet.random /\ IsSome(TheSet.address)
        /\ ~from_str(Unwrap(TheSet.address)).ok) =>
        /\ calls = <<>> /\ cmds = <<>> /\ exists = None /\ info = None
        /\ pc \in {"main", "done"}
        /\ Done => /\ result = "IoError"
                   /\ out = <<Msg("invalid_address", "", Unwrap(TheSet.address))>>
                   /\ parsed = Some(from_str(Unwrap(TheSet.address)))

C3_Witness ==
    /\ SetGiven /\ ~TheSet.random /\ TheSet.address = Some(BadDigitText)
    /\ TheSet.interface = Some("eth0")
    /\ \E i \in 1..Len(ifaddrs) : ifaddrs[i].interface_name = "eth0"
    /\ Done /\ result = "IoError"
    /\ Unwrap(parsed).err = "InvalidDigit"

\* C4: set with an interface, no address and random = false (no top-level
\* flag): the run prints the interface-alone advisory and nothing else, returns
\* Ok, and never invokes set_addr nor checks whether the interface exists.
C4_InterfaceAlone ==
    (SetGiven /\ IsSome(TheSet.interface) /\ ~IsSome(TheSet.address) /\ ~TheSet.random) =>
        /\ calls = <<>> /\ cmds = <<>> /\ exists = None /\ info = None
        /\ pc \in {"main", "done"}
        /\ Done => out = <<Msg("interface_alone", "", <<>>)>> /\ result = "Ok"

C4_Witness ==
    /\ SetGiven /\ TheSet.interface = Some("eth0") /\ ~IsSome(TheSet.address)
    /\ ~TheSet.random
    /\ \E i \in 1..Len(ifaddrs) : ifaddrs[i].interface_name = "eth0"
    /\ Done /\ out = <<Msg("interface_alone", "", <<>>)>>

InTable(n) == \E i \in 1..Len(ifaddrs) : ifaddrs[i].interface_name = n
ExistsTrue == IsSome(exists) /\ Unwrap(exists).ok /\ Unwrap(exists).val
ExistsFalse == IsSome(exists) /\ Unwrap(exists).ok /\ ~Unwrap(exists).val

\* C5: set_addr is invoked at most once per run; a run that reports the address
\* as set invoked it exactly once; it is invoked only from the two applying
\* arms of set, with an interface the user named, that is in the interface
\* table and for which inter_exists returned true, or, when none was named, with
\* the interface get_info(None) returned; a named interface for which
\* inter_exists returned false ends the run with the "doesn't exist" advisory
\* and no invocation.
C5_SetAddrOnceOnResolved ==
    /\ Len(calls) <= 1
    /\ Kinds("set_done") # {} => Len(calls) = 1
    /\ (pc \in {"down", "address", "up", "report"}) => Len(calls) = 1
    /\ \A i \in 1..Len(calls) :
        /\ SetGiven
        /\ branch \in {"set_random", "set_address"}
        /\ IF IsSome(TheSet.interface)
           THEN /\ calls[i].inter = Unwrap(TheSet.interface)
                /\ ExistsTrue
                /\ InTable(calls[i].inter)
           ELSE /\ LookupFound
                /\ calls[i].inter = Found.name
                /\ InTable(calls[i].inter)
    /\ (SetGiven /\ IsSome(TheSet.interface) /\ pc # "main" /\ ~InTable(Unwrap(TheSet.interface))) =>
            calls = <<>>
    /\ ExistsFalse =>
        /\ calls = <<>> /\ cmds = <<>>
        /\ Done /\ result = "Ok"
        /\ out[Len(out)] = Msg("no_such_interface", Unwrap(TheSet.interface), <<>>)

C5_Witness ==
    /\ Done /\ result = "Ok" /\ branch = "set_address"
    /\ Len(calls) = 1 /\ Kinds("set_done") # {}
    /\ ~IsSome(TheSet.interface)
    /\ calls[1].inter = "wlan0"
    /\ ifaddrs[1] = Entry("lo", Some(Link(ZeroMac)))

Verbs == <<"down", "address", "up">>

\* C6: the commands set_addr spawned are a prefix of: down, address with the
\* canonical text of the address, up, all on the interface it was given; a
\* command is spawned only when every earlier one returned without an I/O
\* error; the success line and Ok come only after all three; an I/O error of a
\* spawn ends the run with that error, with no later command and no report.
C6_ThreeStepsInOrder ==
    /\ Len(cmds) = Len(cmdRes)
    /\ Len(cmds) <= 3
    /\ cmds # <<>> => Len(calls) = 1
    /\ \A k \in 1..Len(cmds) :
        /\ cmds[k].verb = Verbs[k]
        /\ cmds[k].inter = calls[1].inter
        /\ cmds[k].text = IF k = 2 THEN to_string(calls[1].addr) ELSE <<>>
        /\ \A j \in 1..(k - 1) : cmdRes[j] # "io_error"
        /\ cmdRes[k] = "io_error" =>
            /\ Len(cmds) = k
            /\ Done /\ result = "IoError"
            /\ Kinds("set_done") = {}
    /\ Kinds("set_done") # {} =>
        /\ Len(cmds) = 3
        /\ \A j \in 1..3 : cmdRes[j] # "io_error"
        /\ out[Len(out)] = Msg("set_done", calls[1].inter, to_string(calls[1].addr))
        /\ Done /\ result = "Ok"
    /\ (calls # <<>> /\ result = "Ok") => Kinds("set_done") # {}
    /\ (pc = "address" => Len(cmds) = 1) /\ (pc = "up" => Len(cmds) = 2)
    /\ (pc = "report" => Len(cmds) = 3) /\ (pc = "down" => Len(cmds) = 0)

\* the address step failed to spawn after the down step took effect: the run
\* ended with the I/O error and the interface is left down
C6_Witness ==
    /\ Done /\ result = "IoError"
    /\ cmdRes = <<"exit_ok", "io_error">>
    /\ cmds = <<Command("down", "eth0", <<>>), Command("address", "eth0", ValidText)>>
    /\ link = "down"

Qualifies(e) ==
    /\ IsSome(e.address)
    /\ Unwrap(e.address).family = "Link"
    /\ Unwrap(e.address).bytes # <<0, 0, 0, 0, 0, 0>>

\* C7: get_info(None), when the enumeration succeeds, returns the name and
\* address of the first entry of the table that is link-layer with bytes not
\* all zero, and None when the table has no such entry.
C7_LookupFirstNonZeroLink ==
    (IsSome(info) /\ Unwrap(info).arg = None /\ Unwrap(info).res.ok) =>
        LET q == {i \in 1..Len(ifaddrs) : Qualifies(ifaddrs[i])} IN
        IF q = {} THEN Unwrap(info).res.val = None
        ELSE LET m == CHOOSE i \in q : \A j \in q : i <= j IN
             Unwrap(info).res.val =
                Some([name |-> ifaddrs[m].interface_name,
                      addr |-> Unwrap(ifaddrs[m].address).bytes])

C7_Witness ==
    /\ Len(ifaddrs) = 3
    /\ ifaddrs[1] = Entry("eth0", Some(Inet))
    /\ ifaddrs[2] = Entry("lo", Some(Link(ZeroMac)))
    /\ ifaddrs[3] = Entry("wlan0", Some(Link(MacB)))
    /\ IsSome(info) /\ Unwrap(info).arg = None
    /\ Unwrap(info).res = Ok(Some([name |-> "wlan0", addr |-> MacB]))

HexChars ==
    {"0","1","2","3","4","5","6","7","8","9",
     "a","b","c","d","e","f","A","B","C","D","E","F"}

WellFormedField(f) == Len(f) \in {1, 2} /\ \A i \in 1..Len(f) : f[i] \in HexChars

WellFormedText(t) ==
    /\ Cardinality({i \in 1..Len(t) : t[i] \in {":", "-"}}) = 5
    /\ \A i \in 1..Len(split(t)) : WellFormedField(split(t)[i])

\* C8: from_str succeeds exactly when the text splits on ':' or '-' into
\* exactly 6 fields and every field is 1 or 2 hexadecimal digits; every other
\* text (an empty field, a sign character, more than 2 digits) is rejected.
C8_ParseExactlyWellFormed ==
    IsSome(parsed) => (Unwrap(parsed).ok <=> WellFormedText(text))

\* C9: new_addr returns the drawn octets with bit 0 of octet 0 cleared and bit 1
\* of octet 0 set; the other six bits of octet 0 and octets 1 to 5 are as drawn.
C9_GeneratedBits ==
    IsSome(addr) =>
        LET a == Unwrap(addr) IN
        /\ Len(a) = 6
        /\ a[1] % 2 = 0
        /\ (a[1] \div 2) % 2 = 1
        /\ a[1] \div 4 = raw[1] \div 4
        /\ \A i \in 2..6 : a[i] = raw[i]

C9_Witness ==
    /\ IsSome(addr)
    /\ raw = <<253, 255, 254, 1, 128, 7>>
    /\ Unwrap(addr) = <<254, 255, 254, 1, 128, 7>>

\* C10: every run that returns success has printed an outcome; no combination
\* of the flags and set options lets main return Ok with nothing printed.
C10_NoSilentSuccess ==
    (Done /\ result = "Ok") => out # <<>>

====
